---- MODULE Spec2Model ----
(***************************************************************************)
(* Model of DatabaseAnalyzer (src/main.py): inference of implicit          *)
(* foreign-key relationships from column naming conventions.               *)
(*                                                                         *)
(* Names are sequences of one-character strings.  Confidences are kept in  *)
(* hundredths (0.8 is 80) so that the arithmetic is exact integer          *)
(* arithmetic; the only sum the Python floats do not represent as the      *)
(* decimal value is 0.7 + 0.2 (0.8999999999999999), which lies on the same *)
(* side of the 0.8 threshold as 90 does.                                   *)
(***************************************************************************)
EXTENDS Integers, Sequences, FiniteSets, TLC

VARIABLES
    catalog,        \* the tables, columns and foreign keys the database holds
    database_up,    \* whether metadata.reflect can read them
    pc,             \* position of the main program
    relationships,  \* result of find_implicit_relationships
    analysis,       \* result of analyze_and_suggest_relationships
    calls,          \* the calls of _calculate_relationship_confidence, in order
    pending,        \* matches of the loops of find_implicit_relationships not yet scored
    name,           \* argument of _normalize_table_name (normalizer runs)
    once,           \* _normalize_table_name(name)
    twice,          \* _normalize_table_name(once)
    npc             \* position of a normalizer run

vars == <<catalog, database_up, pc, relationships, analysis, calls, pending, name, once, twice, npc>>

runVars == <<catalog, database_up, pc, relationships, analysis, calls, pending>>
normVars == <<name, once, twice, npc>>

None == <<"none">>

\* analysis before analyze_and_suggest_relationships has returned
NoReport == [report |-> FALSE]

(***************************************************************************)
(* Bounds.                                                                 *)
(***************************************************************************)
MaxLen == 4        \* longest table name given to the normalizer runs
MaxTables == 2     \* most tables in a catalog
MaxColumns == 2    \* most columns in a catalog

(***************************************************************************)
(* Strings.                                                                *)
(***************************************************************************)
Lower(ch) ==
    CASE ch = "D" -> "d"
      [] ch = "S" -> "s"
      [] ch = "F" -> "f"
      [] ch = "K" -> "k"
      [] OTHER -> ch

\* str.lower()
LowerStr(s) == [i \in 1..Len(s) |-> Lower(s[i])]

StartsWith(s, p) == Len(s) >= Len(p) /\ SubSeq(s, 1, Len(p)) = p

EndsWith(s, p) == Len(s) >= Len(p) /\ SubSeq(s, Len(s) - Len(p) + 1, Len(s)) = p

DropFirst(s, n) == SubSeq(s, n + 1, Len(s))

DropLast(s, n) == SubSeq(s, 1, Len(s) - n)

Range(q) == {q[i] : i \in 1..Len(q)}

\* \w of the re module, on the characters names are made of
WordChars ==
    {"a", "b", "c", "d", "e", "f", "g", "i", "k", "l", "m", "n", "o", "r", "s", "t", "u",
     "D", "F", "K", "S", "_"}

IsWord(s) == \A i \in 1..Len(s) : s[i] \in WordChars

RECURSIVE Remove(_, _)
\* s without the characters of the set drop
Remove(s, drop) ==
    IF s = <<>> THEN <<>>
    ELSE IF Head(s) \in drop THEN Remove(Tail(s), drop)
    ELSE <<Head(s)>> \o Remove(Tail(s), drop)

RECURSIVE RemoveFirst(_, _)
\* s without the first occurrence of a character of the set drop
RemoveFirst(s, drop) ==
    IF s = <<>> THEN <<>>
    ELSE IF Head(s) \in drop THEN Tail(s)
    ELSE <<Head(s)>> \o RemoveFirst(Tail(s), drop)

(***************************************************************************)
(* The names of the tables and columns a catalog is made of                *)
(***************************************************************************)
TableNameSeq ==
    << <<"d","i","m","_","d">>,
       <<"D","s">>,
       <<"c","l","a","s","s","e","s">> >>

ColumnNameSeq ==
    << <<"i","d","_","i","d">>,
       <<"i","d","_","c","l","a","s","s","e","s">>,
       <<"F","K","_","c","l","a","s","s">>,
       <<"c","o","d","_","d">>,
       <<"r","e","f","_","c","l","a","s">>,
       <<"n","o","m","e">> >>

(***************************************************************************)
(* _normalize_table_name                                                   *)
(***************************************************************************)
\* the alternation of the prefix regex, in its order
TablePrefixes ==
    << <<"d","i","m","_">>, <<"t","b","_">>, <<"t","b","l","_">>,
       <<"t","a","b","_">>, <<"f","a","c","t","_">>, <<"f","a","t","o","_">> >>

\* re.sub(r'^(dim_|tb_|tbl_|tab_|fact_|fato_)', '', s)
StripPrefix(s) ==
    LET hits == {k \in 1..Len(TablePrefixes) : StartsWith(s, TablePrefixes[k])}
    IN IF hits = {} THEN s
       ELSE LET k == CHOOSE h \in hits : \A g \in hits : h <= g
            IN DropFirst(s, Len(TablePrefixes[k]))

\* re.sub(r'(s|es|is)$', '', s): the leftmost match is replaced, so a name
\* ending in "es" or "is" loses both characters, any other name ending in
\* "s" loses one
StripSuffix(s) ==
    IF EndsWith(s, <<"e","s">>) \/ EndsWith(s, <<"i","s">>) THEN DropLast(s, 2)
    ELSE IF EndsWith(s, <<"s">>) THEN DropLast(s, 1)
    ELSE s

\* str.replace('_', '') with a count of one
RemoveUnderscores_first(s) == RemoveFirst(s, {"_"})

\* str.replace('_', '')
RemoveUnderscores(s) == Remove(s, {"_"})

_normalize_table_name(s) == RemoveUnderscores(StripSuffix(StripPrefix(LowerStr(s))))

(***************************************************************************)
(* _get_all_table_variations                                               *)
(***************************************************************************)
Vowels == {"a", "e", "i", "o", "u"}

RECURSIVE Dedup(_)
\* the distinct elements of a sequence, each at its first place
Dedup(q) ==
    IF q = <<>> THEN <<>>
    ELSE LET front == Dedup(DropLast(q, 1))
             last == q[Len(q)]
         IN IF \E i \in 1..Len(front) : front[i] = last THEN front
            ELSE Append(front, last)

\* the method without the call of _normalize_table_name
_get_all_table_variations_raw(table_name) ==
    Dedup(<< table_name,
             table_name \o <<"s">>,
             table_name \o <<"e","s">>,
             Remove(table_name, Vowels) >>)

\* the method without variations.add(base_name)
_get_all_table_variations_nobase(table_name) ==
    LET base_name == _normalize_table_name(table_name)
    IN Dedup(<< base_name \o <<"s">>,
                base_name \o <<"e","s">>,
                Remove(base_name, Vowels) >>)

\* The variations are a Python set; the sequence fixes one iteration order
\* (that of insertion).
_get_all_table_variations(table_name) ==
    LET base_name == _normalize_table_name(table_name)
    IN Dedup(<< base_name,
                base_name \o <<"s">>,
                base_name \o <<"e","s">>,
                Remove(base_name, Vowels) >>)

(***************************************************************************)
(* self.relation_patterns and pattern.match                                *)
(***************************************************************************)
\* The six regular expressions, in dictionary order.  A "prefix" pattern is
\* ^(?:alt1|alt2)(\w+)$, the "suffix" pattern is ^(\w+)(?:alt1|alt2|alt3)$
\* with the underscore taken into the alternatives.
relation_patterns ==
    << [pattern_name |-> "id_pattern", where |-> "prefix",
        alts |-> << <<"i","d","_">>, <<"i","d">> >>],
       [pattern_name |-> "fk_pattern", where |-> "prefix",
        alts |-> << <<"f","k","_">>, <<"f","k">> >>],
       [pattern_name |-> "table_id_pattern", where |-> "suffix",
        alts |-> << <<"_","i","d">>, <<"_","c","d">>, <<"_","c","o","d","i","g","o">> >>],
       [pattern_name |-> "ref_pattern", where |-> "prefix",
        alts |-> << <<"r","e","f","_">>, <<"r","e","f","e","r","e","n","c","e","_">> >>],
       [pattern_name |-> "cod_pattern", where |-> "prefix",
        alts |-> << <<"c","o","d","_">>, <<"c","o","d","i","g","o","_">> >>],
       [pattern_name |-> "num_pattern", where |-> "prefix",
        alts |-> << <<"n","u","m","_">>, <<"n","u","m","e","r","o","_">> >>] >>

\* pattern.match(column_name).group(1), or None.  The alternatives are tried
\* in order and the first one that lets the rest match \w+ up to the end
\* decides the group.  column_name is lower-case already, so re.IGNORECASE
\* changes nothing.
PatternMatch(p, column_name) ==
    LET fits(k) == IF p.where = "prefix" THEN StartsWith(column_name, p.alts[k])
                   ELSE EndsWith(column_name, p.alts[k])
        group(k) == IF p.where = "prefix" THEN DropFirst(column_name, Len(p.alts[k]))
                    ELSE DropLast(column_name, Len(p.alts[k]))
        hits == {k \in 1..Len(p.alts) : fits(k) /\ group(k) # <<>> /\ IsWord(group(k))}
    IN IF hits = {} THEN None
       ELSE group(CHOOSE h \in hits : \A g \in hits : h <= g)

\* the dictionary matches of a column, as (pattern_name, matched_part) pairs
\* in insertion order
Matches(column_name) ==
    LET all == [k \in 1..Len(relation_patterns) |->
                   [pattern_name |-> relation_patterns[k].pattern_name,
                    matched_part |-> PatternMatch(relation_patterns[k], column_name)]]
    IN SelectSeq(all, LAMBDA m : m.matched_part # None)

(***************************************************************************)
(* find_implicit_relationships: the loops                                  *)
(***************************************************************************)
RECURSIVE Flatten(_)
\* the concatenation of a sequence of sequences
Flatten(qq) == IF qq = <<>> THEN <<>> ELSE Head(qq) \o Flatten(Tail(qq))

\* _normalize_table_name of each table name, computed once
NormalizedTableNames == [t \in Range(TableNameSeq) |-> _normalize_table_name(t)]

\* Lines 69-84 for each column name, computed once: the lower-case name, the
\* patterns it matches with the matched parts, and the variations of each
\* matched part.
ColumnScan ==
    [c \in Range(ColumnNameSeq) |->
        LET column_name == LowerStr(c)
            matches == Matches(column_name)
        IN [column_name |-> column_name,
            matches |-> [k \in 1..Len(matches) |->
                            [pattern_name |-> matches[k].pattern_name,
                             matched_part |-> matches[k].matched_part,
                             variations |->
                                 _get_all_table_variations(matches[k].matched_part)]]]]

\* the normalized names of the tables, in catalog order
Tokens(cat) == [i \in 1..Len(cat) |-> NormalizedTableNames[cat[i].name]]

\* the places of a token among the tokens
TokenIndexes(tokens, token) == {i \in 1..Len(tokens) : tokens[i] = token}

Least(S) == CHOOSE i \in S : \A j \in S : i <= j

Greatest(S) == CHOOSE i \in S : \A j \in S : i >= j

\* the dictionary comprehension with the first table of a token kept
table_names_first(cat) ==
    LET tokens == Tokens(cat)
    IN [token \in Range(tokens) |-> cat[Least(TokenIndexes(tokens, token))].name]

\* table_names: a later table of the same token replaces an earlier one
table_names(cat) ==
    LET tokens == Tokens(cat)
    IN [token \in Range(tokens) |-> cat[Greatest(TokenIndexes(tokens, token))].name]

\* Lines 75-89 for one column: the (pattern, target table) pairs its name
\* resolves to, in the order of the pattern loop and the variation loop.
ColumnTargets(source_table_name, column, names) ==
    LET column_name == ColumnScan[column.name].column_name
        matches == ColumnScan[column.name].matches
        found(m) ==
            LET hit == SelectSeq(m.variations, LAMBDA v : v \in DOMAIN names)
            IN [i \in 1..Len(hit) |->
                   [source_table |-> source_table_name,
                    column_name |-> column_name,
                    pattern_name |-> m.pattern_name,
                    target_table |-> names[hit[i]]]]
    IN Flatten([i \in 1..Len(matches) |-> found(matches[i])])

\* line 90 without the comparison
SkipSelf_never(source_table_name, found) == found

\* line 90: if target_table != source_table_name
SkipSelf(source_table_name, found) ==
    SelectSeq(found, LAMBDA w : w.target_table # source_table_name)

\* the body of the column loop without the test of line 72
ColumnMatches_nofk(source_table_name, column, names) ==
    SkipSelf(source_table_name, ColumnTargets(source_table_name, column, names))

\* The body of the column loop up to the call of
\* _calculate_relationship_confidence: the (pattern, target table) pairs the
\* column is scored for, in the order of the loops.  A column with a declared
\* foreign key is skipped (line 72).
ColumnMatches(source_table_name, column, names) ==
    IF column.foreign_keys THEN <<>>
    ELSE SkipSelf(source_table_name, ColumnTargets(source_table_name, column, names))

\* all the matches of a catalog, in the order of the table and column loops
AllMatches(cat) ==
    LET names == table_names(cat)
        ofTable(t) == Flatten([c \in 1..Len(t.columns) |->
                                  ColumnMatches(t.name, t.columns[c], names)])
    IN Flatten([i \in 1..Len(cat) |-> ofTable(cat[i])])

(***************************************************************************)
(* _calculate_relationship_confidence                                      *)
(***************************************************************************)
Min(a, b) == IF a <= b THEN a ELSE b

\* pattern_confidence.get(pattern_type, 0.3), in hundredths
pattern_confidence(pattern_type) ==
    CASE pattern_type = "id_pattern" -> 80
      [] pattern_type = "fk_pattern" -> 90
      [] pattern_type = "table_id_pattern" -> 85
      [] pattern_type = "ref_pattern" -> 70
      [] pattern_type = "cod_pattern" -> 60
      [] pattern_type = "num_pattern" -> 50
      [] OTHER -> 30

\* What self.engine.execute(query).scalar() does: it raises, or it returns
\* the count of matching values.
Answers ==
    {[raises |-> TRUE, match_count |-> 0],
     [raises |-> FALSE, match_count |-> 0],
     [raises |-> FALSE, match_count |-> 1]}

\* the method without try/except: the exception of the query leaves it
_calculate_relationship_confidence_nocatch(pattern_type, answer) ==
    [raised |-> answer.raises,
     confidence |-> Min(100, pattern_confidence(pattern_type)
                               + (IF answer.match_count > 0 THEN 20 ELSE 0))]

\* the method with the bonus added before the query is looked at
_calculate_relationship_confidence_always(pattern_type, answer) ==
    [raised |-> FALSE,
     confidence |-> Min(100, pattern_confidence(pattern_type) + 20)]

\* raised: whether an exception leaves the method (the except clause
\* catches every Exception and only logs a warning)
_calculate_relationship_confidence(pattern_type, answer) ==
    LET base == pattern_confidence(pattern_type)
        confidence == IF ~answer.raises /\ answer.match_count > 0 THEN base + 20 ELSE base
    IN [raised |-> FALSE, confidence |-> Min(100, confidence)]

(***************************************************************************)
(* Catalogs: the tables and columns                                        *)
(***************************************************************************)
RECURSIVE SubsetsUpTo(_, _)
\* the subsets of S of at most n elements
SubsetsUpTo(S, n) ==
    IF n = 0 THEN {{}}
    ELSE LET smaller == SubsetsUpTo(S, n - 1)
         IN smaller \cup {T \cup {x} : T \in smaller, x \in S}

RECURSIVE Ascending(_)
\* the numbers of a set in ascending order
Ascending(S) ==
    IF S = {} THEN <<>>
    ELSE LET least == CHOOSE x \in S : \A y \in S : x <= y
         IN <<least>> \o Ascending(S \ {least})

\* the sequences of n different table names
TableNameLists(n) ==
    {names \in [1..n -> Range(TableNameSeq)] :
        \A i, j \in 1..n : i # j => names[i] # names[j]}

\* The catalog with the given table names; placed holds the (table, column
\* name) pairs that exist and the foreign-key flag of each.  The columns of a
\* table are different names and come in the order of ColumnNameSeq.
CatalogOf(names, placed) ==
    [i \in 1..Len(names) |->
        LET mine == Ascending({c \in 1..Len(ColumnNameSeq) : <<i, c>> \in DOMAIN placed})
        IN [name |-> names[i],
            columns |-> [k \in 1..Len(mine) |->
                            [name |-> ColumnNameSeq[mine[k]],
                             foreign_keys |-> placed[<<i, mine[k]>>]]]]]

\* the (table, column name) pairs that may exist in a catalog of n tables: at
\* most MaxColumns in all
Placements(n) == SubsetsUpTo((1..n) \X (1..Len(ColumnNameSeq)), MaxColumns)

(***************************************************************************)
(* The program: DatabaseAnalyzer(url), then                                *)
(* analyze_and_suggest_relationships(), which calls                        *)
(* find_implicit_relationships() and builds the report.  The run is cut at *)
(* the queries to the database, whose answers the program does not decide. *)
(***************************************************************************)
\* metadata.tables holds at most MaxTables tables, no two of a name
Init ==
    /\ \E n \in 0..MaxTables : \E names \in TableNameLists(n) :
          \E slots \in Placements(n) : \E placed \in [slots -> BOOLEAN] :
              catalog = CatalogOf(names, placed)
    /\ database_up \in BOOLEAN
    /\ pc = "start"
    /\ relationships = <<>>
    /\ analysis = NoReport
    /\ calls = <<>>
    /\ pending = <<>>
    /\ name = <<>>
    /\ once = None
    /\ twice = None
    /\ npc = "idle"

\* __init__ when metadata.reflect succeeds
Construct ==
    /\ pc = "start"
    /\ database_up
    /\ pc' = "constructed"
    /\ UNCHANGED <<catalog, database_up, relationships, analysis, calls, pending>>
    /\ UNCHANGED normVars

\* __init__ with the exception of metadata.reflect swallowed
ConstructFails_swallowed ==
    /\ pc = "start"
    /\ ~database_up
    /\ pc' = "constructed"
    /\ UNCHANGED <<catalog, database_up, relationships, analysis, calls, pending>>
    /\ UNCHANGED normVars

\* __init__ when metadata.reflect raises: _get_all_metadata lets an
\* exception out (its except clause re-raises, and self.logger is not yet
\* set at line 15), so no analyzer exists and the program ends
ConstructFails ==
    /\ pc = "start"
    /\ ~database_up
    /\ pc' = "fatal"
    /\ UNCHANGED <<catalog, database_up, relationships, analysis, calls, pending>>
    /\ UNCHANGED normVars

\* analyze_and_suggest_relationships enters find_implicit_relationships:
\* relationships is the empty defaultdict, table_names is built, the loops
\* run up to the first query
StartFind ==
    /\ pc = "constructed"
    /\ relationships' = <<>>
    /\ pending' = AllMatches(catalog)
    /\ pc' = "finding"
    /\ UNCHANGED <<catalog, database_up, analysis, calls>>
    /\ UNCHANGED normVars

\* relationships[source].append(candidate) on the defaultdict
AppendTo(rels, source, candidate) ==
    [t \in DOMAIN rels \cup {source} |->
        IF t = source
        THEN (IF source \in DOMAIN rels THEN Append(rels[source], candidate)
              ELSE <<candidate>>)
        ELSE rels[t]]

\* lines 93-106 for the next match: the query is answered, the confidence
\* is computed and the candidate is appended; an exception leaving
\* _calculate_relationship_confidence would leave the whole call chain
ScoreCandidate ==
    /\ pc = "finding"
    /\ pending # <<>>
    /\ \E answer \in Answers :
          LET m == Head(pending)
              r == _calculate_relationship_confidence(m.pattern_name, answer)
          IN /\ calls' = Append(calls,
                    [source_table |-> m.source_table,
                     target_table |-> m.target_table,
                     column_name |-> m.column_name,
                     pattern_type |-> m.pattern_name,
                     answer |-> answer])
             /\ IF r.raised
                THEN /\ pc' = "crashed"
                     /\ UNCHANGED <<relationships, pending>>
                ELSE /\ relationships' =
                        AppendTo(relationships, m.source_table,
                            [source_column |-> m.column_name,
                             target_table |-> m.target_table,
                             pattern_matched |-> m.pattern_name,
                             confidence |-> r.confidence])
                     /\ pending' = Tail(pending)
                     /\ pc' = "finding"
    /\ UNCHANGED <<catalog, database_up, analysis>>
    /\ UNCHANGED normVars

RECURSIVE SumOver(_, _)
\* sum(f[k] for k in keys)
SumOver(f, keys) ==
    IF keys = {} THEN 0
    ELSE LET k == CHOOSE x \in keys : TRUE
         IN f[k] + SumOver(f, keys \ {k})

\* the number of entries of a list that are at least `least` confident
CountAtLeast(rels, least) ==
    Cardinality({i \in 1..Len(rels) : rels[i].confidence >= least})

\* the statistics with tables_with_implicit_relations counted over the
\* tables of the catalog
Statistics_alltables(implicit_relations, cat) ==
    [total_implicit_relationships |->
        SumOver([t \in DOMAIN implicit_relations |-> Len(implicit_relations[t])],
                DOMAIN implicit_relations),
     tables_with_implicit_relations |-> Len(cat),
     high_confidence_relations |->
        SumOver([t \in DOMAIN implicit_relations |->
                    CountAtLeast(implicit_relations[t], 80)],
                DOMAIN implicit_relations)]

\* analysis['statistics']
Statistics(implicit_relations, cat) ==
    [total_implicit_relationships |->
        SumOver([t \in DOMAIN implicit_relations |-> Len(implicit_relations[t])],
                DOMAIN implicit_relations),
     tables_with_implicit_relations |-> Cardinality(DOMAIN implicit_relations),
     high_confidence_relations |->
        SumOver([t \in DOMAIN implicit_relations |->
                    CountAtLeast(implicit_relations[t], 80)],
                DOMAIN implicit_relations)]

\* find_implicit_relationships returns dict(relationships) and
\* analyze_and_suggest_relationships builds the report
BuildReport ==
    /\ pc = "finding"
    /\ pending = <<>>
    /\ analysis' = [relationships |-> relationships,
                    statistics |-> Statistics(relationships, catalog),
                    recommendations |-> <<>>]
    /\ pc' = "done"
    /\ UNCHANGED <<catalog, database_up, relationships, calls, pending>>
    /\ UNCHANGED normVars

Next == Construct \/ ConstructFails \/ StartFind \/ ScoreCandidate \/ BuildReport

Spec == Init /\ [][Next]_vars

TypeOK ==
    /\ pc \in {"start", "constructed", "fatal", "finding", "crashed", "done"}
    /\ database_up \in BOOLEAN
    /\ Len(catalog) <= MaxTables

(***************************************************************************)
(* Properties of the analysis                                              *)
(***************************************************************************)
TableNamesOf(cat) == {cat[i].name : i \in 1..Len(cat)}

\* the candidates of all source tables, in catalog order, each with its
\* source table
Candidates(rels, cat) ==
    Flatten([i \in 1..Len(cat) |->
        IF cat[i].name \in DOMAIN rels
        THEN [j \in 1..Len(rels[cat[i].name]) |->
                 [source_table |-> cat[i].name,
                  source_column |-> rels[cat[i].name][j].source_column,
                  target_table |-> rels[cat[i].name][j].target_table,
                  pattern_matched |-> rels[cat[i].name][j].pattern_matched,
                  confidence |-> rels[cat[i].name][j].confidence]]
        ELSE <<>>])

CandidatesOf(rels, source) == IF source \in DOMAIN rels THEN Range(rels[source]) ELSE {}

\* the last table, in catalog order, of the token of table t
LastOfToken(cat, tokens, t) ==
    LET token == tokens[CHOOSE i \in 1..Len(cat) : cat[i].name = t]
    IN cat[Greatest({i \in 1..Len(cat) : tokens[i] = token})].name

TokenOf(cat, tokens, t) == tokens[CHOOSE i \in 1..Len(cat) : cat[i].name = t]

\* the variations of a token, written out
VariationSet(x) ==
    LET n == _normalize_table_name(x)
    IN {n, n \o <<"s">>, n \o <<"e","s">>, Remove(n, Vowels)}

\* for each column name: the variation sets of the tokens its patterns extract
VariationSetsOf ==
    [c \in Range(ColumnNameSeq) |->
        {VariationSet(m.matched_part) : m \in Range(Matches(LowerStr(c)))}]

\* for each column name: the normalized tokens its patterns extract
NormalizedPartsOf ==
    [c \in Range(ColumnNameSeq) |->
        {_normalize_table_name(m.matched_part) : m \in Range(Matches(LowerStr(c)))}]

\* C2: no candidate relationship has its target table equal to the source
\* table it is grouped under, in every catalog (also when several tables
\* normalize to one token) and for every answer of the sampler.
C2_NoSelfReference ==
    /\ \A s \in DOMAIN relationships :
          \A c \in Range(relationships[s]) : c.target_table # s
    /\ pc = "done" =>
          \A s \in DOMAIN analysis.relationships :
              \A c \in Range(analysis.relationships[s]) : c.target_table # s

\* the report is built, it holds a candidate, and a column without foreign
\* key resolved to its own table
C2_Witness ==
    /\ pc = "done"
    /\ analysis.statistics.total_implicit_relationships >= 1
    /\ \E i \in 1..Len(catalog) : \E k \in 1..Len(catalog[i].columns) :
          /\ ~catalog[i].columns[k].foreign_keys
          /\ \E m \in Range(Matches(LowerStr(catalog[i].columns[k].name))) :
                \E v \in VariationSet(m.matched_part) :
                    /\ v \in DOMAIN table_names(catalog)
                    /\ table_names(catalog)[v] = catalog[i].name

\* C3: a column that carries a declared foreign key is never the source
\* column of a candidate, whatever patterns its name matches and whatever
\* tables exist.
C3_ForeignKeyColumnsExcluded ==
    \A i \in 1..Len(catalog) : \A k \in 1..Len(catalog[i].columns) :
        catalog[i].columns[k].foreign_keys =>
            \A c \in CandidatesOf(relationships, catalog[i].name) :
                c.source_column # LowerStr(catalog[i].columns[k].name)

\* the report is built, it holds a candidate, and a column with a foreign
\* key matches a pattern whose token resolves to another table
C3_Witness ==
    /\ pc = "done"
    /\ analysis.statistics.total_implicit_relationships >= 1
    /\ \E i \in 1..Len(catalog) : \E k \in 1..Len(catalog[i].columns) :
          /\ catalog[i].columns[k].foreign_keys
          /\ \E m \in Range(Matches(LowerStr(catalog[i].columns[k].name))) :
                \E v \in VariationSet(m.matched_part) :
                    /\ v \in DOMAIN table_names(catalog)
                    /\ table_names(catalog)[v] # catalog[i].name

\* the base weight of a pattern, as the specification tabulates it
BaseWeight(p) ==
    CASE p = "id_pattern" -> 80
      [] p = "fk_pattern" -> 90
      [] p = "table_id_pattern" -> 85
      [] p = "ref_pattern" -> 70
      [] p = "cod_pattern" -> 60
      [] p = "num_pattern" -> 50

\* C4: the confidence of every candidate is min(1.0, w + b), w the base
\* weight of its pattern and b = 0.2 exactly when the sampler call made for
\* that candidate succeeded and reported at least one match, else 0; so it
\* lies within [0,1].
C4_Confidence ==
    LET cs == Candidates(relationships, catalog)
    IN /\ Len(cs) <= Len(calls)
       /\ \A k \in 1..Len(cs) :
             LET b == IF ~calls[k].answer.raises /\ calls[k].answer.match_count >= 1
                      THEN 20 ELSE 0
             IN /\ calls[k].source_table = cs[k].source_table
                /\ calls[k].column_name = cs[k].source_column
                /\ calls[k].target_table = cs[k].target_table
                /\ calls[k].pattern_type = cs[k].pattern_matched
                /\ cs[k].confidence = Min(100, BaseWeight(cs[k].pattern_matched) + b)
                /\ cs[k].confidence \in 0..100

\* the report holds a candidate whose query raised, one whose query found
\* nothing, and an fk_pattern candidate whose query found a match
C4_Witness ==
    /\ pc = "done"
    /\ \E k \in 1..Len(calls) : calls[k].answer.raises
    /\ \E k \in 1..Len(calls) :
          ~calls[k].answer.raises /\ calls[k].answer.match_count = 0
    /\ \E k \in 1..Len(calls) :
          /\ calls[k].pattern_type = "fk_pattern"
          /\ ~calls[k].answer.raises
          /\ calls[k].answer.match_count = 1
          /\ Candidates(relationships, catalog)[k].confidence = 100

\* C5: a failing sampler call never aborts the analysis: whatever calls
\* fail, the run goes on to the report, the candidates (source table, source
\* column, target table, pattern) are those of the run in which no call
\* fails, and a candidate whose call failed has the base confidence of its
\* pattern.
C5_SamplerFailureTolerated ==
    LET cs == Candidates(relationships, catalog)
        found == [k \in 1..Len(cs) |->
                    [source_table |-> cs[k].source_table,
                     column_name |-> cs[k].source_column,
                     pattern_name |-> cs[k].pattern_matched,
                     target_table |-> cs[k].target_table]]
    IN /\ pc # "crashed"
       /\ pc = "finding" => found \o pending = AllMatches(catalog)
       /\ pc = "done" =>
             /\ found = AllMatches(catalog)
             /\ analysis.relationships = relationships
       /\ pc \in {"finding", "done"} =>
             /\ Len(cs) = Len(calls)
             /\ \A k \in 1..Len(cs) :
                   calls[k].answer.raises =>
                       cs[k].confidence = BaseWeight(cs[k].pattern_matched)

\* the report is built after two calls, the first of which raised
C5_Witness ==
    /\ pc = "done"
    /\ Len(calls) >= 2
    /\ calls[1].answer.raises
    /\ analysis.statistics.total_implicit_relationships = Len(calls)

\* C6: when the catalog cannot be retrieved the run ends in the fatal state
\* before any inference or sampler call, and no report is produced; a report
\* exists only on runs whose catalog retrieval succeeded.
C6_CatalogFailureFatal ==
    /\ ~database_up =>
          /\ pc \in {"start", "fatal"}
          /\ relationships = <<>>
          /\ pending = <<>>
          /\ calls = <<>>
          /\ analysis = NoReport
    /\ analysis # NoReport => (database_up /\ pc = "done")
    /\ pc = "fatal" => ~database_up

\* the retrieval of a catalog with matching columns failed
C6_Witness ==
    /\ pc = "fatal"
    /\ ~database_up
    /\ AllMatches(catalog) # <<>>

\* C7: in every report total_implicit_relationships is the sum of the
\* candidate counts of the source tables, high_confidence_relations (the
\* candidates of confidence >= 0.8) is at most that total, and
\* tables_with_implicit_relations is the number of source tables with at
\* least one candidate; no source table is listed with an empty list.
C7_Statistics ==
    pc = "done" =>
        LET rels == analysis.relationships
            st == analysis.statistics
            cs == Candidates(rels, catalog)
        IN /\ DOMAIN rels \subseteq TableNamesOf(catalog)
           /\ st.total_implicit_relationships = Len(cs)
           /\ st.high_confidence_relations =
                 Cardinality({k \in 1..Len(cs) : cs[k].confidence >= 80})
           /\ st.high_confidence_relations <= st.total_implicit_relationships
           /\ st.tables_with_implicit_relations =
                 Cardinality({t \in TableNamesOf(catalog) :
                                 t \in DOMAIN rels /\ Len(rels[t]) >= 1})
           /\ \A t \in DOMAIN rels : Len(rels[t]) >= 1

\* a report over two tables, each with one candidate, of which one is below
\* 0.8
C7_Witness ==
    /\ pc = "done"
    /\ Len(catalog) = 2
    /\ analysis.statistics.tables_with_implicit_relations = 2
    /\ analysis.statistics.total_implicit_relationships = 2
    /\ analysis.statistics.high_confidence_relations = 1

\* the columns of shape id_<x>: the token x of such a column, or None
IdToken(column_name) ==
    IF /\ StartsWith(LowerStr(column_name), <<"i","d","_">>)
       /\ Len(column_name) > 3
       /\ IsWord(column_name)
    THEN DropFirst(LowerStr(column_name), 3)
    ELSE None

\* for each column name of shape id_<x>: normalize(x)
IdTargetOf ==
    [c \in {d \in Range(ColumnNameSeq) : IdToken(d) # None} |->
        _normalize_table_name(IdToken(c))]

\* C8: if table S has a column c of shape id_<x> without declared foreign
\* key, and T is another table, the only one whose normalized name is
\* normalize(x), then the report holds under S a candidate with source
\* column c, target T and pattern id_pattern, of confidence 1.0 when the
\* sampler confirmed it and 0.8 otherwise.
C8_IdPatternComplete ==
    pc = "done" =>
        \A i, j \in 1..Len(catalog) : \A k \in 1..Len(catalog[i].columns) :
            LET col == catalog[i].columns[k]
                cs == Candidates(analysis.relationships, catalog)
            IN (/\ i # j
                /\ ~col.foreign_keys
                /\ col.name \in DOMAIN IdTargetOf
                /\ TokenIndexes(Tokens(catalog), IdTargetOf[col.name]) = {j})
               => \E n \in 1..Len(cs) :
                     /\ cs[n].source_table = catalog[i].name
                     /\ cs[n].source_column = LowerStr(col.name)
                     /\ cs[n].target_table = catalog[j].name
                     /\ cs[n].pattern_matched = "id_pattern"
                     /\ cs[n].confidence >= 80
                     /\ cs[n].confidence =
                           (IF ~calls[n].answer.raises /\ calls[n].answer.match_count >= 1
                            THEN 100 ELSE 80)

\* a report for a catalog in which a column id_<x> without foreign key names
\* another table through its token, and the sampler confirmed it
C8_Witness ==
    /\ pc = "done"
    /\ \E i, j \in 1..Len(catalog) : \E k \in 1..Len(catalog[i].columns) :
          /\ i # j
          /\ ~catalog[i].columns[k].foreign_keys
          /\ catalog[i].columns[k].name \in DOMAIN IdTargetOf
          /\ TokenIndexes(Tokens(catalog), IdTargetOf[catalog[i].columns[k].name]) = {j}
          /\ \E c \in CandidatesOf(relationships, catalog[i].name) :
                c.target_table = catalog[j].name /\ c.confidence = 100

\* C9 (as stated): a column whose name matches a pattern extracting the token
\* x yields no candidate when no table of the catalog has a normalized name
\* equal to normalize(x).
C9_NoTableNoCandidate ==
    pc = "done" =>
        \A i \in 1..Len(catalog) : \A k \in 1..Len(catalog[i].columns) :
            \A x \in NormalizedPartsOf[catalog[i].columns[k].name] :
                (\A j \in 1..Len(catalog) : Tokens(catalog)[j] # x)
                => \A c \in CandidatesOf(relationships, catalog[i].name) :
                      c.source_column # LowerStr(catalog[i].columns[k].name)

\* C9 (amended): a column yields no candidate when, for every pattern it
\* matches and the token x that pattern extracts, no table of the catalog
\* has a normalized name among the variations of x (normalize(x), that with
\* "s", that with "es", that without vowels).
C9_NoVariationNoCandidate ==
    pc = "done" =>
        \A i \in 1..Len(catalog) : \A k \in 1..Len(catalog[i].columns) :
            (\A V \in VariationSetsOf[catalog[i].columns[k].name] :
                \A j \in 1..Len(catalog) : Tokens(catalog)[j] \notin V)
            => \A c \in CandidatesOf(relationships, catalog[i].name) :
                  c.source_column # LowerStr(catalog[i].columns[k].name)

\* a report for a catalog of two tables with a column that matches a pattern
\* and whose variations name no table, while another column has a candidate
C9_Witness ==
    /\ pc = "done"
    /\ Len(catalog) = 2
    /\ relationships # <<>>
    /\ \E i \in 1..Len(catalog) : \E k \in 1..Len(catalog[i].columns) :
          /\ ~catalog[i].columns[k].foreign_keys
          /\ VariationSetsOf[catalog[i].columns[k].name] # {}
          /\ \A V \in VariationSetsOf[catalog[i].columns[k].name] :
                \A j \in 1..Len(catalog) : Tokens(catalog)[j] \notin V

\* C10: when several tables normalize to one token, every candidate resolved
\* through that token targets the table that comes last in catalog order; a
\* table shadowed by a later one is never a target, and when the last table
\* of a token is the source table itself, no candidate of that source has a
\* target of that token.
C10_LastSeenWins ==
    \A tokens \in {Tokens(catalog)} :
        \A s \in DOMAIN relationships : \A c \in Range(relationships[s]) :
            /\ c.target_table \in TableNamesOf(catalog)
            /\ c.target_table = LastOfToken(catalog, tokens, c.target_table)
            /\ TokenOf(catalog, tokens, c.target_table) = TokenOf(catalog, tokens, s)
                  => LastOfToken(catalog, tokens, s) # s

\* a report with a candidate whose target shares its token with an earlier
\* table
C10_Witness ==
    /\ pc = "done"
    /\ \E s \in DOMAIN relationships : \E c \in Range(relationships[s]) :
          Cardinality(TokenIndexes(Tokens(catalog),
                                   NormalizedTableNames[c.target_table])) >= 2

(***************************************************************************)
(* Normalizer runs: a table name is normalized, and the token normalized   *)
(* again.                                                                  *)
(***************************************************************************)
NormAlphabet == {"t", "b", "_", "s", "e", "i", "S"}

RECURSIVE StringsOfLen(_)
StringsOfLen(n) ==
    IF n = 0 THEN {<<>>}
    ELSE {<<c>> \o s : c \in NormAlphabet, s \in StringsOfLen(n - 1)}

NormInputs == UNION {StringsOfLen(n) : n \in 0..MaxLen}

InitNorm ==
    /\ name \in NormInputs
    /\ once = None
    /\ twice = None
    /\ npc = "start"
    /\ catalog = <<>>
    /\ database_up = TRUE
    /\ pc = "idle"
    /\ relationships = <<>>
    /\ analysis = NoReport
    /\ calls = <<>>
    /\ pending = <<>>

NormalizeOnce ==
    /\ npc = "start"
    /\ once' = _normalize_table_name(name)
    /\ npc' = "once"
    /\ UNCHANGED <<name, twice>>
    /\ UNCHANGED runVars

NormalizeTwice ==
    /\ npc = "once"
    /\ twice' = _normalize_table_name(once)
    /\ npc' = "twice"
    /\ UNCHANGED <<name, once>>
    /\ UNCHANGED runVars

NextNorm == NormalizeOnce \/ NormalizeTwice

SpecNorm == InitNorm /\ [][NextNorm]_vars

\* C1 (as stated): normalization is idempotent, normalize(normalize(x)) =
\* normalize(x) for every table name x.
C1_Idempotent == npc = "twice" => twice = once

\* C1 (amended): normalize(normalize(x)) = normalize(x) for every table name
\* x whose normalized token does not end in "s".
C1_IdempotentUnlessS ==
    (npc = "twice" /\ ~EndsWith(once, <<"s">>)) => twice = once

\* an upper-case name with a prefix and a suffix was normalized twice and its
\* token does not end in "s"
C1_Witness ==
    /\ npc = "twice"
    /\ name = <<"t","b","_","S">>
    /\ once = <<>>
    /\ twice = once

====
